---- MODULE Spec2Model ----
(***************************************************************************)
(* Model of run.py: GlueSchemaManager, a wrapper of five calls into the    *)
(* AWS Glue Schema Registry (boto3 client 'glue'), and main(), which runs  *)
(* them top to bottom.                                                     *)
(*                                                                         *)
(* The program keeps no state of its own between calls except the          *)
(* manager's four constructor fields; the state the calls act on is the    *)
(* registry service.  The service is modelled by what the Glue API does    *)
(* for the request run.py sends at each call site:                         *)
(*   create_registry           adds the registry, AlreadyExistsException   *)
(*                             when it is there;                           *)
(*   create_schema             with a SchemaDefinition, creates the schema *)
(*                             and stores the definition as version 1;     *)
(*   register_schema_version   returns the number of the version that      *)
(*                             already stores the definition, and only     *)
(*                             otherwise appends a version;                *)
(*   get_schema_version        LatestVersion: the highest version;         *)
(*   put_schema_version_metadata adds a key/value pair to one version,     *)
(*                             AlreadyExistsException for a pair it has.   *)
(* Every call may also be refused with a ClientError the state does not    *)
(* explain (access denied, internal failure): the `fault' input.           *)
(* Exceptions that are not ClientError (no reply from the service at all)  *)
(* are outside the model, as is the compatibility check of definitions.    *)
(***************************************************************************)
EXTENDS Integers, Sequences, FiniteSets, TLC

VARIABLES
    registries,   \* service: names of the registries that exist
    schemas,      \* service: <<registry, schema>> pairs that exist
    versions,     \* service: slot -> sequence of definitions, index = VersionNumber
    metadata,     \* service: set of <<slot, VersionNumber, key, value>>
    mgr,          \* the GlueSchemaManager instance: its four fields
    last,         \* the call that returned last: what the caller observed
    prev,         \* the call before it: [op, raised, code]
    returned,     \* slot -> version numbers add_schema_version has returned
    pc,           \* position in main(): "idle" outside a run
    version,      \* main()'s local variable `version'
    run,          \* the service calls made by the current run of main()
    runEmpty      \* the service was empty when the current run started

vars == <<registries, schemas, versions, metadata, mgr, last, prev, returned,
          pc, version, run, runEmpty>>

service == <<registries, schemas, versions, metadata>>

----------------------------------------------------------------------------
(* Inputs *)

MaxVersion == 3   \* version numbers a caller passes are drawn from 1..MaxVersion

NoneVal == 0      \* Python's None where a version number is expected

AvroSchema == "avro_user"          \* main()'s avro_schema string
OtherSchema == "avro_user_v2"      \* some other well-formed definition

MainRegistry == "my-registry"
MainSchemaName == "my-avro-schema"

RegistryNames == {MainRegistry}
SchemaNames == {MainSchemaName}
Definitions == {AvroSchema, OtherSchema}
DataFormats == {"AVRO"}

Slots == RegistryNames \X SchemaNames

AlreadyExists == "AlreadyExistsException"
NotFound == "EntityNotFoundException"
FaultCodes == {"AccessDeniedException", "InternalServiceException"}
Faults == FaultCodes \cup {"none"}

CheckpointKV == <<"Checkpoint", "true">>
MetadataInputs == {<<"Checkpoint", "false">>}

Configs == [registry_name : RegistryNames, schema_name : SchemaNames,
            data_format : DataFormats, schema_definition : Definitions]

MainConfig == [registry_name |-> MainRegistry, schema_name |-> MainSchemaName,
               data_format |-> "AVRO", schema_definition |-> AvroSchema]

slotOf(m) == <<m.registry_name, m.schema_name>>

NoDefinition == "None"   \* Python's None where a definition is expected

\* What a caller observes of one method call: the ClientError code the service
\* answered with ("none": success), whether the method raised, the version
\* number and the definition it returned, what it printed of the schema, and
\* the version_number it was called with.
Call(op, code, raised, ret, value, printed, arg) ==
    [op |-> op, code |-> code, raised |-> raised, ret |-> ret, value |-> value,
     printed |-> printed, arg |-> arg]

NoCall == Call("init", "none", FALSE, NoneVal, NoDefinition, "", NoneVal)

Brief(c) == [op |-> c.op, raised |-> c.raised, code |-> c.code]

----------------------------------------------------------------------------
(* The registry service *)

RECURSIVE IndexOf(_, _, _)
IndexOf(seq, d, i) ==
    IF i > Len(seq) THEN 0
    ELSE IF seq[i] = d THEN i ELSE IndexOf(seq, d, i + 1)

GlueCreateRegistry(r, fault) ==
    IF fault # "none" THEN fault
    ELSE IF r \in registries THEN AlreadyExists
    ELSE "none"

GlueCreateSchema(sl, fault) ==
    IF fault # "none" THEN fault
    ELSE IF sl[1] \notin registries THEN NotFound
    ELSE IF sl \in schemas THEN AlreadyExists
    ELSE "none"

\* mutant: the definition replaces the latest version instead of adding one
StoreVersion_Overwrite(vs, d) ==
    IF vs = <<>> THEN <<d>> ELSE [vs EXCEPT ![Len(vs)] = d]

StoreVersion(vs, d) == Append(vs, d)

GlueRegisterSchemaVersion(sl, d, fault) ==
    IF fault # "none" THEN [code |-> fault, VersionNumber |-> 0, stored |-> versions[sl]]
    ELSE IF sl \notin schemas
        THEN [code |-> NotFound, VersionNumber |-> 0, stored |-> versions[sl]]
    ELSE IF IndexOf(versions[sl], d, 1) # 0
        THEN [code |-> "none", VersionNumber |-> IndexOf(versions[sl], d, 1),
              stored |-> versions[sl]]
    ELSE [code |-> "none", VersionNumber |-> Len(versions[sl]) + 1,
          stored |-> StoreVersion(versions[sl], d)]

GlueGetLatestSchemaVersion(sl, fault) ==
    IF fault # "none" THEN [code |-> fault, SchemaDefinition |-> ""]
    ELSE IF sl \notin schemas THEN [code |-> NotFound, SchemaDefinition |-> ""]
    ELSE [code |-> "none", SchemaDefinition |-> versions[sl][Len(versions[sl])]]

StoreMetadata(md, sl, v, kv) == md \cup {<<sl, v, kv[1], kv[2]>>}

GluePutSchemaVersionMetadata(sl, v, kv, fault) ==
    IF fault # "none" THEN [code |-> fault, stored |-> metadata]
    ELSE IF sl \notin schemas \/ v \notin 1..Len(versions[sl])
        THEN [code |-> NotFound, stored |-> metadata]
    ELSE IF <<sl, v, kv[1], kv[2]>> \in metadata
        THEN [code |-> AlreadyExists, stored |-> metadata]
    ELSE [code |-> "none", stored |-> StoreMetadata(metadata, sl, v, kv)]

----------------------------------------------------------------------------
(* GlueSchemaManager *)

\* mutant: the handler re-raises without looking at the error code
EnsureRaises_NoAlreadyExistsCheck(code) == code # "none"

\* mutant: the handler prints every ClientError and goes on
EnsureRaises_SwallowAll(code) == FALSE

\* except ClientError: 'AlreadyExistsException' is printed, anything else re-raised
EnsureRaises(code) == code \notin {"none", AlreadyExists}

\* mutant: the `return version' line is missing
AddReturn_Dropped(resp) == NoneVal

\* mutant: the method reports success instead of the version number
AddReturn_Flag(resp) == IF resp.code = "none" THEN 1 ELSE NoneVal

\* return version / except ClientError: return None
AddReturn(resp) == IF resp.code = "none" THEN resp.VersionNumber ELSE NoneVal

\* read_schema prints the definition and has no return statement
ReadPrinted(resp) == IF resp.code = "none" THEN resp.SchemaDefinition ELSE ""
ReadReturn(resp) == NoDefinition

\* mutant: the version operations handle ClientError as the ensure operations do
VersionOpRaises_LikeEnsure(code) == code \notin {"none", AlreadyExists}

\* except ClientError in the three version operations and in
\* update_schema_version_metadata: print, never raise
VersionOpRaises(code) == FALSE

Record(c) ==
    /\ last' = c
    /\ prev' = Brief(last)
    /\ run' = IF pc = "idle" THEN run ELSE Append(run, c)

create_registry_if_not_exists(fault) ==
    LET code == GlueCreateRegistry(mgr.registry_name, fault) IN
    /\ registries' = IF code = "none" THEN registries \cup {mgr.registry_name}
                     ELSE registries
    /\ Record(Call("create_registry", code, EnsureRaises(code),
                   NoneVal, NoDefinition, "", NoneVal))
    /\ UNCHANGED <<schemas, versions, metadata, mgr, returned>>

create_schema_if_not_exists(fault) ==
    LET sl == slotOf(mgr)
        code == GlueCreateSchema(sl, fault) IN
    /\ schemas' = IF code = "none" THEN schemas \cup {sl} ELSE schemas
    /\ versions' = IF code = "none"
                   THEN [versions EXCEPT ![sl] = StoreVersion(<<>>, mgr.schema_definition)]
                   ELSE versions
    /\ Record(Call("create_schema", code, EnsureRaises(code),
                   NoneVal, NoDefinition, "", NoneVal))
    /\ UNCHANGED <<registries, metadata, mgr, returned>>

add_schema_version(fault) ==
    LET sl == slotOf(mgr)
        resp == GlueRegisterSchemaVersion(sl, mgr.schema_definition, fault) IN
    /\ versions' = [versions EXCEPT ![sl] = resp.stored]
    /\ Record(Call("add_version", resp.code, VersionOpRaises(resp.code),
                   AddReturn(resp), NoDefinition, "", NoneVal))
    /\ returned' = IF AddReturn(resp) # NoneVal
                   THEN [returned EXCEPT ![sl] = @ \cup {AddReturn(resp)}]
                   ELSE returned
    /\ UNCHANGED <<registries, schemas, metadata, mgr>>

read_schema(fault) ==
    LET resp == GlueGetLatestSchemaVersion(slotOf(mgr), fault) IN
    /\ Record(Call("read", resp.code, VersionOpRaises(resp.code),
                   NoneVal, ReadReturn(resp), ReadPrinted(resp), NoneVal))
    /\ UNCHANGED <<service, mgr, returned>>

update_schema_version_metadata(version_number, kv, fault) ==
    LET resp == GluePutSchemaVersionMetadata(slotOf(mgr), version_number, kv, fault) IN
    /\ metadata' = resp.stored
    /\ Record(Call("update_metadata", resp.code, VersionOpRaises(resp.code),
                   NoneVal, NoDefinition, "", version_number))
    /\ UNCHANGED <<registries, schemas, versions, mgr, returned>>

\* mutant: setting a checkpoint takes the tag off every other version
set_schema_version_checkpoint_Unique(version_number, fault) ==
    LET sl == slotOf(mgr)
        resp == GluePutSchemaVersionMetadata(sl, version_number, CheckpointKV, fault) IN
    /\ metadata' = IF resp.code = "none"
                    THEN {m \in resp.stored :
                            m[3] = CheckpointKV[1] => m[2] = version_number}
                    ELSE resp.stored
    /\ Record(Call("set_checkpoint", resp.code, VersionOpRaises(resp.code),
                   NoneVal, NoDefinition, "", version_number))
    /\ UNCHANGED <<registries, schemas, versions, mgr, returned>>

set_schema_version_checkpoint(version_number, fault) ==
    LET resp == GluePutSchemaVersionMetadata(slotOf(mgr), version_number,
                                             CheckpointKV, fault) IN
    /\ metadata' = resp.stored
    /\ Record(Call("set_checkpoint", resp.code, VersionOpRaises(resp.code),
                   NoneVal, NoDefinition, "", version_number))
    /\ UNCHANGED <<registries, schemas, versions, mgr, returned>>

----------------------------------------------------------------------------
(* A caller using the manager's methods one by one *)

AtRest == pc = "idle"
Rest == UNCHANGED <<pc, version, runEmpty>>

Construct ==
    /\ AtRest
    /\ \E c \in Configs : mgr' = c
    /\ last' = NoCall
    /\ prev' = Brief(last)
    /\ UNCHANGED <<service, returned, pc, version, run, runEmpty>>

CallCreateRegistry == AtRest /\ Rest /\ \E f \in Faults : create_registry_if_not_exists(f)
CallCreateSchema == AtRest /\ Rest /\ \E f \in Faults : create_schema_if_not_exists(f)
CallAddVersion == AtRest /\ Rest /\ \E f \in Faults : add_schema_version(f)
CallReadSchema == AtRest /\ Rest /\ \E f \in Faults : read_schema(f)
CallUpdateMetadata ==
    AtRest /\ Rest /\ \E f \in Faults, v \in 1..MaxVersion, kv \in MetadataInputs :
        update_schema_version_metadata(v, kv, f)
CallSetCheckpoint ==
    AtRest /\ Rest /\ \E f \in Faults, v \in 1..MaxVersion :
        set_schema_version_checkpoint(v, f)

----------------------------------------------------------------------------
(* main() *)

\* mutant: the test is inverted
ShouldCheckpoint_Inverted(v) == v = NoneVal

\* mutant: the test is missing
ShouldCheckpoint_Always(v) == TRUE

\* `if version:'
ShouldCheckpoint(v) == v # NoneVal

MainStart ==
    /\ pc = "idle"
    /\ pc' = "registry"
    /\ mgr' = MainConfig
    /\ last' = NoCall
    /\ prev' = Brief(NoCall)
    /\ version' = NoneVal
    /\ run' = <<>>
    /\ runEmpty' = (registries = {} /\ schemas = {})
    /\ UNCHANGED <<service, returned>>

MainCreateRegistry ==
    /\ pc = "registry"
    /\ \E f \in Faults : create_registry_if_not_exists(f)
    /\ pc' = IF last'.raised THEN "aborted" ELSE "schema"
    /\ UNCHANGED <<version, runEmpty>>

MainCreateSchema ==
    /\ pc = "schema"
    /\ \E f \in Faults : create_schema_if_not_exists(f)
    /\ pc' = IF last'.raised THEN "aborted" ELSE "add"
    /\ UNCHANGED <<version, runEmpty>>

MainAddVersion ==
    /\ pc = "add"
    /\ \E f \in Faults : add_schema_version(f)
    /\ version' = last'.ret
    /\ pc' = IF last'.raised THEN "aborted" ELSE "read"
    /\ UNCHANGED runEmpty

MainReadSchema ==
    /\ pc = "read"
    /\ \E f \in Faults : read_schema(f)
    /\ pc' = IF last'.raised THEN "aborted" ELSE "checkpoint"
    /\ UNCHANGED <<version, runEmpty>>

MainSetCheckpoint ==
    /\ pc = "checkpoint"
    /\ ShouldCheckpoint(version)
    /\ \E f \in Faults : set_schema_version_checkpoint(version, f)
    /\ pc' = IF last'.raised THEN "aborted" ELSE "done"
    /\ UNCHANGED <<version, runEmpty>>

MainSkipCheckpoint ==
    /\ pc = "checkpoint"
    /\ ~ShouldCheckpoint(version)
    /\ pc' = "done"
    /\ UNCHANGED <<service, mgr, last, prev, returned, version, run, runEmpty>>

\* the process ends; nothing of the run is kept
MainExit ==
    /\ pc \in {"done", "aborted"}
    /\ pc' = "idle"
    /\ version' = NoneVal
    /\ run' = <<>>
    /\ runEmpty' = FALSE
    /\ last' = NoCall
    /\ prev' = Brief(NoCall)
    /\ UNCHANGED <<service, mgr, returned>>

----------------------------------------------------------------------------

Init ==
    /\ registries = {}
    /\ schemas = {}
    /\ versions = [sl \in Slots |-> <<>>]
    /\ metadata = {}
    /\ mgr \in Configs
    /\ last = NoCall
    /\ prev = Brief(NoCall)
    /\ returned = [sl \in Slots |-> {}]
    /\ pc = "idle"
    /\ version = NoneVal
    /\ run = <<>>
    /\ runEmpty = FALSE

Next ==
    \/ Construct
    \/ CallCreateRegistry
    \/ CallCreateSchema
    \/ CallAddVersion
    \/ CallReadSchema
    \/ CallUpdateMetadata
    \/ CallSetCheckpoint
    \/ MainStart
    \/ MainCreateRegistry
    \/ MainCreateSchema
    \/ MainAddVersion
    \/ MainReadSchema
    \/ MainSetCheckpoint
    \/ MainSkipCheckpoint
    \/ MainExit

Spec == Init /\ [][Next]_vars

----------------------------------------------------------------------------
(* Properties *)

EnsureOps == {"create_registry", "create_schema"}
VersionOps == {"add_version", "read", "set_checkpoint"}

theSlot == slotOf(mgr)

CheckpointTagged == {<<m[1], m[2]>> : m \in {x \in metadata : <<x[3], x[4]>> = CheckpointKV}}

AllOk(calls) == \A i \in 1..Len(calls) : calls[i].code = "none"

\* C1, as the spec states it: whenever one ensure operation is called twice in
\* succession on a manager, the second call finds the object existing and
\* raises nothing (read in the claim's favour: unless the service refuses one of
\* the two calls for a reason of its own, such as access denied).
C1_SecondEnsureNeverFatal ==
    (last.op \in EnsureOps /\ prev.op = last.op
        /\ prev.code \notin FaultCodes /\ last.code \notin FaultCodes)
        => (last.code = AlreadyExists /\ ~last.raised)

\* C1, amended: when the first of two successive calls of one ensure operation
\* returned normally, the second call leaves registries, schemas, versions and
\* metadata as they were, and it either finds the object existing and returns
\* normally or raises the other error the service answered with.
C1_SecondEnsureAfterNormalReturn ==
    [][(last'.op \in EnsureOps /\ prev'.op = last'.op /\ ~prev'.raised)
         => /\ service' = service
            /\ last'.code # "none"
            /\ last'.raised = (last'.code # AlreadyExists)]_vars

C1_Witness ==
    /\ prev.op = "create_schema" /\ ~prev.raised /\ prev.code = "none"
    /\ last.op = "create_schema" /\ last.code = AlreadyExists /\ ~last.raised
    /\ theSlot \in schemas

\* C2: an ensure operation raises exactly when the service answered with an
\* error code other than "already exists"; "already exists" and success both
\* return normally, and in main() the raise ends the run before any later call.
C2_EnsureRaisesAllButAlreadyExists ==
    last.op \in EnsureOps =>
        /\ last.code \in {"none", AlreadyExists} => ~last.raised
        /\ last.code \notin {"none", AlreadyExists} => last.raised
        /\ (pc # "idle" /\ last.code \notin {"none", AlreadyExists}) => pc = "aborted"

C2_Witness ==
    /\ pc = "aborted"
    /\ last.op = "create_schema" /\ last.code \in FaultCodes /\ last.raised
    /\ run[1].op = "create_registry" /\ run[1].code = AlreadyExists /\ ~run[1].raised

\* C3, as the spec states it: no version operation raises on an error code, and
\* setCheckpoint with a version number that registerVersion never returned for
\* the schema is answered with an error and returns normally.
C3_UnreturnedVersionIsAnError ==
    /\ last.op \in VersionOps => ~last.raised
    /\ (last.op = "set_checkpoint" /\ last.arg \notin returned[theSlot])
          => (last.code # "none" /\ ~last.raised)

\* C3, amended: no version operation raises on an error code, and
\* setCheckpoint with a version number the schema does not have (the schema is
\* missing, or the number is above its latest version) is answered with an
\* error and returns normally.
C3_VersionOpsNeverRaise ==
    /\ last.op \in VersionOps => ~last.raised
    /\ (last.op = "set_checkpoint"
          /\ (theSlot \notin schemas \/ last.arg > Len(versions[theSlot])))
          => (last.code # "none" /\ ~last.raised)

C3_Witness ==
    /\ last.op = "set_checkpoint" /\ last.code = NotFound /\ ~last.raised
    /\ theSlot \in schemas /\ last.arg > Len(versions[theSlot])

\* C4: registerVersion returns a version number exactly when the service call
\* succeeded, and that number is the one under which the service stores the
\* submitted definition; it returns None exactly when the service answered
\* with an error, and then the call stored no version.
C4_AddReturnsVersionIffSuccess ==
    [][last'.op = "add_version" =>
         /\ (last'.code = "none") = (last'.ret # NoneVal)
         /\ last'.code = "none" =>
              /\ last'.ret \in 1..Len(versions'[theSlot])
              /\ versions'[theSlot][last'.ret] = mgr.schema_definition
         /\ last'.ret = NoneVal => versions' = versions]_vars

C4_Witness ==
    /\ last.op = "add_version" /\ last.code \in FaultCodes /\ last.ret = NoneVal
    /\ theSlot \in schemas

\* C5, as the spec states it: every successful registerVersion returns a
\* positive number above every number registerVersion returned before for the
\* schema and adds exactly one version.
C5_EveryRegisterAddsGreaterVersion ==
    [][(last'.op = "add_version" /\ last'.code = "none") =>
         /\ last'.ret >= 1
         /\ \A v \in returned[theSlot] : last'.ret > v
         /\ Len(versions'[theSlot]) = Len(versions[theSlot]) + 1]_vars

\* C5, amended: every successful registerVersion returns a positive number.
\* When no version of the schema stores the submitted definition, the call adds
\* exactly one version, numbered one above the latest and above every number
\* returned before; when a version stores it already (the one ensureSchema
\* created or one registered earlier), the call returns that version's number
\* and adds nothing.
C5_RegisterAddsOnlyNewDefinitions ==
    [][(last'.op = "add_version" /\ last'.code = "none") =>
         LET old == versions[theSlot]
             d == mgr.schema_definition
             known == {i \in 1..Len(old) : old[i] = d} IN
         /\ last'.ret >= 1
         /\ known = {} =>
              /\ versions'[theSlot] = Append(old, d)
              /\ last'.ret = Len(old) + 1
              /\ \A v \in returned[theSlot] : last'.ret > v
         /\ known # {} =>
              /\ versions' = versions
              /\ last'.ret \in known]_vars

C5_Witness ==
    /\ last.op = "add_version" /\ last.code = "none" /\ last.ret = 2
    /\ 1 \in returned[theSlot]
    /\ Len(versions[theSlot]) = 2

\* C6: readLatestDefinition called right after a successful registerVersion
\* returns the definition just registered whenever the service answered
\* without an error.
C6_ReadReturnsRegistered ==
    (last.op = "read" /\ last.code = "none"
        /\ prev.op = "add_version" /\ prev.code = "none")
        => last.value = mgr.schema_definition

\* C7: a run of main() that started on an empty service and met no service
\* error made the five calls in order, created the registry and the schema
\* with the sample definition, got version number 1 from registerVersion,
\* read back the sample definition, and tagged version 1 Checkpoint=true.
C7_EndToEnd ==
    (pc = "done" /\ runEmpty /\ AllOk(run)) =>
        /\ Len(run) = 5
        /\ run[1].op = "create_registry" /\ run[2].op = "create_schema"
        /\ run[3].op = "add_version" /\ run[3].ret = 1 /\ version = 1
        /\ run[4].op = "read" /\ run[4].printed = AvroSchema
        /\ run[5].op = "set_checkpoint" /\ run[5].arg = 1
        /\ registries = {MainRegistry}
        /\ schemas = {slotOf(MainConfig)}
        /\ versions[slotOf(MainConfig)] = <<AvroSchema>>
        /\ metadata = {<<slotOf(MainConfig), 1, "Checkpoint", "true">>}

C7_Witness ==
    /\ pc = "done" /\ runEmpty /\ AllOk(run)
    /\ Len(run) = 5 /\ run[5].op = "set_checkpoint"
    /\ <<slotOf(MainConfig), 1>> \in CheckpointTagged

\* C8: in a run of main() every checkpoint call comes after a registerVersion
\* call of the run that returned a version number, and carries that number;
\* a run whose registerVersion returned None makes no checkpoint call.
C8_CheckpointOnlyReturnedVersion ==
    pc # "idle" =>
        /\ \A i \in 1..Len(run) : run[i].op = "set_checkpoint" =>
              \E j \in 1..(i - 1) :
                  /\ run[j].op = "add_version"
                  /\ run[j].ret # NoneVal
                  /\ run[j].ret = run[i].arg
        /\ (\E j \in 1..Len(run) : run[j].op = "add_version" /\ run[j].ret = NoneVal)
              => ~\E i \in 1..Len(run) : run[i].op = "set_checkpoint"

C8_Witness ==
    /\ pc = "done"
    /\ Len(run) = 4
    /\ run[3].op = "add_version" /\ run[3].ret = NoneVal
    /\ run[4].op = "read"

\* C9: no step changes or removes the definition stored under a version number
\* a schema already has, and no step removes a schema; versions are only added.
C9_VersionsImmutable ==
    [][\A sl \in Slots :
         /\ sl \in schemas => sl \in schemas'
         /\ \A i \in 1..Len(versions[sl]) :
              /\ i <= Len(versions'[sl])
              /\ versions'[sl][i] = versions[sl][i]]_vars

C9_Witness ==
    /\ Len(versions[theSlot]) = 2
    /\ versions[theSlot][1] = AvroSchema
    /\ last.op = "update_metadata" /\ last.code = "none" /\ last.arg = 1

\* C10: setCheckpoint(v) adds at most the Checkpoint=true tag of version v of
\* the manager's schema and removes nothing, and no step of any operation takes
\* a Checkpoint=true tag off a version: the tagged versions only grow.
C10_CheckpointOnlyAdds ==
    [][/\ CheckpointTagged \subseteq CheckpointTagged'
       /\ last'.op = "set_checkpoint" =>
            /\ metadata \subseteq metadata'
            /\ metadata' \subseteq
                 metadata \cup {<<theSlot, last'.arg, "Checkpoint", "true">>}
            /\ <<registries', schemas', versions'>> = <<registries, schemas, versions>>]_vars

C10_Witness ==
    /\ last.op = "set_checkpoint" /\ last.code = "none"
    /\ {<<theSlot, 1>>, <<theSlot, 2>>} \subseteq CheckpointTagged

====
